---- MODULE Spec2Model ----
(***************************************************************************)
(* The conversation-run coordinator of the Wunderlust chat client          *)
(* (src/frontend/src/app.tsx, the second App component, lines 535-1163)    *)
(* together with the relay backend it talks to (src/unnamed/part_000).    *)
(*                                                                         *)
(* Conventions                                                             *)
(*  - undefined ids are 0 (None); thread, run and tool-call ids count      *)
(*    from 1.                                                              *)
(*  - every remote call has three steps: the client issues the request,    *)
(*    the relay serves it, the client's continuation runs on the response. *)
(*    A request remembers the values its closure captured (cap = the       *)
(*    runId of the render the closure belongs to).                         *)
(*  - setRunId, the re-render and the useEffect[runId] that follows are    *)
(*    one step (SetRunId).                                                 *)
(*  - the handlers are callable in every state: the disabled attributes    *)
(*    of the input and the Send button are presentation; sendMessage       *)
(*    keeps its own guard.                                                 *)
(*  - getUserMedia is granted and a recording always holds audio data.     *)
(***************************************************************************)
EXTENDS Bags, FiniteSets, Integers, Sequences, TLC

None == 0

\* ---- bounds ----
MaxThreads == 2
MaxRuns == 2
MaxInFlight == 2
MaxCalls == 2
MaxBatch == 2
MaxTimers == 2
MaxMsgs == 3
MaxCount == 2

VARIABLES
    threadId,      \* threadId.current
    stored,        \* localStorage "threadId"
    runId,         \* runId state
    timer,         \* run the polling interval was armed for, or None
    observed,      \* history: status the last poll of the active run showed
    timeouts,      \* bag of pending settle timeouts, by captured runId
    messages,      \* messages state (the displayed log)
    message,       \* message state (the input text)
    recording,     \* recording state
    mapCenter, mapZoom, mapMarker,
    net,           \* bag of requests and responses in flight
    threads,       \* remote: number of threads created
    log,           \* remote: thread -> messages, oldest first
    runs,          \* remote: run id -> [thread, status, calls]
    nextCall,      \* remote: number of tool-call ids issued
    invoked,       \* history: tool-call id -> handler invocations
    submitted,     \* history: tool-call id -> results sent to the remote run
    threw,         \* history: run -> error its last dispatch threw, or ""
    sendResult     \* history: what sendMessage did in the last step, if called

vars == << threadId, stored, runId, timer, observed, timeouts, messages,
           message, recording, mapCenter, mapZoom, mapMarker, net, threads,
           log, runs, nextCall, invoked, submitted, threw, sendResult >>

uiVars == << mapCenter, mapZoom, mapMarker >>
remoteVars == << threads, log, runs, nextCall >>
toolHist == << invoked, submitted, threw >>

\* ---- values ----
Threads == 1..MaxThreads
Runs == 1..MaxRuns
Calls == 1..MaxCalls

Texts == {"", " hi "}
trim(s) == IF s = " hi " THEN "hi" ELSE s

Terminal == {"completed", "failed", "expired"}

Paris == [json |-> TRUE, latitude |-> 48850, longitude |-> 2350,
          zoom |-> 12, label |-> "Paris"]
London == [json |-> TRUE, latitude |-> 51507, longitude |-> -128,
           zoom |-> 10, label |-> "London"]
BadJson == [json |-> FALSE, latitude |-> 0, longitude |-> 0,
            zoom |-> 0, label |-> ""]

\* Thread messages: a role and content parts.  A text part holds its text
\* under text.value; an image part holds a file and no text.
TextPart(v) == [type |-> "text", text |-> [value |-> v]]
ImagePart == [type |-> "image_file", image_file |-> [file_id |-> "file"]]

\* The message messages.create adds (part_000, lines 47-53).
UserMessage == [role |-> "user", content |-> << TextPart("hi") >>]

\* The replies a run may add to its thread.
TextReply == [role |-> "assistant", content |-> << TextPart("Paris") >>]
MixedReply ==
    [role |-> "assistant",
     content |-> << TextPart("Here"), ImagePart, TextPart("Paris") >>]
Replies == {TextReply, MixedReply}

NoMarker == [set |-> FALSE, latitude |-> 0, longitude |-> 0, label |-> ""]
NoAction == [type |-> "", tool_calls |-> << >>]

\* The tool calls a run may ask for.
ToolShapes ==
    { [type |-> "function", name |-> "updateMap", arguments |-> Paris],
      [type |-> "function", name |-> "updateMap", arguments |-> London],
      [type |-> "function", name |-> "addMarker", arguments |-> Paris],
      [type |-> "function", name |-> "addMarker", arguments |-> London],
      [type |-> "function", name |-> "deleteMap", arguments |-> Paris],
      [type |-> "function", name |-> "updateMap", arguments |-> BadJson],
      [type |-> "code_interpreter", name |-> "", arguments |-> Paris] }

Batches == UNION { [1..n -> ToolShapes] : n \in 1..MaxBatch }

\* The messages left in the order of the response.
ReverseOmitted(s) == s

\* Array.prototype.reverse (line 705)
Reverse(s) == [i \in 1..Len(s) |-> s[Len(s) + 1 - i]]

Bump(f, k) == [f EXCEPT ![k] = IF @ < MaxCount THEN @ + 1 ELSE @]

InFlight == BagCardinality(net)
Put(m) == net (+) SetToBag({m})
Take(m) == net (-) SetToBag({m})
Swap(m, n) == (net (-) SetToBag({m})) (+) SetToBag({n})

Req(kind, thread, cap, from, text, outputs) ==
    [phase |-> "req", kind |-> kind, thread |-> thread, cap |-> cap,
     from |-> from, text |-> text, outputs |-> outputs]

Resp(m, ok, id, msgs, status, action) ==
    [phase |-> "resp", kind |-> m.kind, thread |-> m.thread, cap |-> m.cap,
     from |-> m.from, ok |-> ok, id |-> id, msgs |-> msgs,
     status |-> status, action |-> action]

\* A failure answered as a success that carries nothing.
FailSwallowed(m) == Resp(m, TRUE, None, << >>, "", NoAction)

\* the call rejects: the relay threw or the transport failed
Fail(m) == Resp(m, FALSE, None, << >>, "", NoAction)

Requests(kind) == { m \in BagToSet(net) : m.phase = "req" /\ m.kind = kind }
Responses(kind) == { m \in BagToSet(net) : m.phase = "resp" /\ m.kind = kind }

\* ---- the client: src/frontend/src/app.tsx ----

\* getRoleName, lines 725-735
getRoleName(role) ==
    IF role = "user" THEN "You"
    ELSE IF role = "assistant" THEN "AI"
    ELSE role

\* renderText, lines 740-755, for a text of one line: the line under the
\* name of the role.
renderText(text, role) == [label |-> getRoleName(role), line |-> text]

\* What React shows for a child that is undefined: nothing.
Undefined == [label |-> "", line |-> "undefined"]

\* A content.map that renders every part as text.
contentMapAll(msg) ==
    [i \in 1..Len(msg.content) |->
        renderText(msg.content[i].type, msg.role)]

\* message.content.map, lines 1066-1073
contentMap(msg) ==
    [i \in 1..Len(msg.content) |->
        IF msg.content[i].type = "text"
        THEN renderText(msg.content[i].text.value, msg.role)
        ELSE Undefined]

\* The log as rendered, lines 1034-1078: per message the children that
\* show.
LogView ==
    [i \in 1..Len(messages) |->
        SelectSeq(contentMap(messages[i]), LAMBDA c : c # Undefined)]

\* setRunId with an effect that has no cleanup: the interval of a cleared
\* run stays armed.
SetRunIdNoCleanup(v) ==
    /\ runId' = v
    /\ timer' = IF v = None THEN timer ELSE v
    /\ observed' = IF v = runId THEN observed ELSE ""

\* setRunId followed by the effect of lines 765-779: the interval of the
\* previous run is cleared and one is armed for the new run.
SetRunId(v) ==
    /\ runId' = v
    /\ timer' = v
    /\ observed' = IF v = runId THEN observed ELSE ""

\* updateMap with latitude and longitude taken for each other.
updateMapSwapped(args, ui) ==
    [ui |-> [ui EXCEPT !.center = [latitude |-> args.longitude,
                                   longitude |-> args.latitude],
                       !.zoom = args.zoom],
     output |-> "Map updated"]

\* updateMap, lines 643-647
updateMap(args, ui) ==
    [ui |-> [ui EXCEPT !.center = [latitude |-> args.latitude,
                                   longitude |-> args.longitude],
                       !.zoom = args.zoom],
     output |-> "Map updated"]

\* addMarker that drops the label.
addMarkerUnlabelled(args, ui) ==
    [ui |-> [ui EXCEPT !.marker = [set |-> TRUE, latitude |-> args.latitude,
                                   longitude |-> args.longitude,
                                   label |-> ""]],
     output |-> "Marker added"]

\* addMarker, lines 652-655
addMarker(args, ui) ==
    [ui |-> [ui EXCEPT !.marker = [set |-> TRUE, latitude |-> args.latitude,
                                   longitude |-> args.longitude,
                                   label |-> args.label]],
     output |-> "Marker added"]

\* chatbotFunctions, lines 660-663
chatbotFunctions == {"updateMap", "addMarker"}

\* A registry whose updateMap entry also places the marker.
CallFunctionBoth(name, args, ui) ==
    IF name = "updateMap"
    THEN [ui |-> addMarker(args, updateMap(args, ui).ui).ui,
          output |-> "Map updated"]
    ELSE addMarker(args, ui)

\* chatbotFunctions[functionName](toolArgs), line 677
CallFunction(name, args, ui) ==
    IF name = "updateMap" THEN updateMap(args, ui) ELSE addMarker(args, ui)

\* ForToolCalls with a loop that stops one call early.
RECURSIVE ForToolCallsShort(_, _, _)
ForToolCallsShort(calls, i, st) ==
    IF i >= Len(calls) \/ st.threw THEN st
    ELSE LET toolCall == calls[i] IN
         IF toolCall.type = "function"
         THEN IF ~toolCall.arguments.json
                 \/ toolCall.name \notin chatbotFunctions
              THEN [st EXCEPT !.threw = TRUE]
              ELSE LET r == CallFunction(toolCall.name, toolCall.arguments,
                                         st.ui)
                   IN ForToolCallsShort(calls, i + 1,
                        [st EXCEPT !.ui = r.ui,
                                   !.invoked = Bump(@, toolCall.id),
                                   !.outputs = Append(@,
                                       [tool_call_id |-> toolCall.id,
                                        output |-> r.output])])
         ELSE ForToolCallsShort(calls, i + 1, st)

\* One pass of the loop of lines 673-683 over calls[i..]; st carries the
\* ui state, the outputs pushed so far, the invocation counts and whether
\* the loop threw (JSON.parse, or calling an undefined registry entry).
RECURSIVE ForToolCalls(_, _, _)
ForToolCalls(calls, i, st) ==
    IF i > Len(calls) \/ st.threw THEN st
    ELSE LET toolCall == calls[i] IN
         IF toolCall.type = "function"
         THEN IF ~toolCall.arguments.json
                 \/ toolCall.name \notin chatbotFunctions
              THEN [st EXCEPT !.threw = TRUE]
              ELSE LET r == CallFunction(toolCall.name, toolCall.arguments,
                                         st.ui)
                   IN ForToolCalls(calls, i + 1,
                        [st EXCEPT !.ui = r.ui,
                                   !.invoked = Bump(@, toolCall.id),
                                   !.outputs = Append(@,
                                       [tool_call_id |-> toolCall.id,
                                        output |-> r.output])])
         ELSE ForToolCalls(calls, i + 1, st)

\* The first call of the batch at which the loop of lines 673-683 throws,
\* or 0.
FirstThrowing(calls) ==
    LET bad == { i \in 1..Len(calls) :
                   /\ calls[i].type = "function"
                   /\ \/ ~calls[i].arguments.json
                      \/ calls[i].name \notin chatbotFunctions }
    IN IF bad = {} THEN 0
       ELSE CHOOSE i \in bad : \A j \in bad : i <= j

\* The error the loop throws: JSON.parse (line 675) throws a SyntaxError,
\* calling chatbotFunctions[functionName] when it is undefined (line 677)
\* throws a TypeError.
ErrorOf(calls) ==
    LET i == FirstThrowing(calls)
    IN IF i = 0 THEN ""
       ELSE IF ~calls[i].arguments.json THEN "SyntaxError" ELSE "TypeError"

\* invokeChatbotFunctions that walks the batch from its end.
invokeChatbotFunctionsBackwards(calls) ==
    ForToolCalls(Reverse(calls), 1,
        [ui |-> [center |-> mapCenter, zoom |-> mapZoom, marker |-> mapMarker],
         outputs |-> << >>, invoked |-> invoked, threw |-> FALSE])

\* invokeChatbotFunctions up to the POST, lines 668-683
invokeChatbotFunctions(calls) ==
    ForToolCalls(calls, 1,
        [ui |-> [center |-> mapCenter, zoom |-> mapZoom, marker |-> mapMarker],
         outputs |-> << >>, invoked |-> invoked, threw |-> FALSE])

\* Steps that do not call sendMessage.
Quiet == sendResult' = ""

\* createThread that returns without the POST of line 578.
PostNewSkipped == net

\* createThread on mount (lines 757-763, 557-585) with nothing stored, and
\* the tail of createThread (lines 575-578): POST /chat/new.
PostNew == Put(Req("new", None, None, "create", "", << >>))

\* onResetThread, lines 590-603
onResetThread ==
    /\ InFlight < MaxInFlight
    /\ threadId' = None
    /\ messages' = << >>
    /\ message' = ""
    /\ SetRunId(None)
    /\ stored' = None
    /\ net' = PostNew
    /\ Quiet
    /\ UNCHANGED << timeouts, recording, uiVars, remoteVars, toolHist >>

\* A continuation of POST /chat/new that does not save the id.
NewResponseNotSaved ==
    \E m \in Responses("new") :
        /\ net' = Take(m)
        /\ IF m.ok
           THEN /\ threadId' = m.id
                /\ UNCHANGED stored
           ELSE UNCHANGED << threadId, stored >>
        /\ Quiet
        /\ UNCHANGED << runId, timer, observed, timeouts, messages, message,
                        recording, uiVars, remoteVars, toolHist >>

\* the continuation of POST /chat/new, lines 578-584
NewResponse ==
    \E m \in Responses("new") :
        /\ net' = Take(m)
        /\ IF m.ok
           THEN /\ threadId' = m.id
                /\ stored' = m.id
           ELSE UNCHANGED << threadId, stored >>
        /\ Quiet
        /\ UNCHANGED << runId, timer, observed, timeouts, messages, message,
                        recording, uiVars, remoteVars, toolHist >>

\* The page is loaded again: the component state of lines 537-552 is
\* initial, the timers and the requests of the previous page are gone with
\* it, and the mount effect (lines 757-763) calls createThread, which takes
\* the stored id and refreshes the log (lines 559-573) or asks for a new
\* thread (line 578).
Reload ==
    /\ threadId' = stored
    /\ SetRunId(None)
    /\ timeouts' = EmptyBag
    /\ messages' = << >>
    /\ message' = ""
    /\ recording' = FALSE
    /\ mapCenter' = [latitude |-> 51505, longitude |-> -90]
    /\ mapZoom' = 13
    /\ mapMarker' = NoMarker
    /\ net' = SetToBag({ IF stored # None
                         THEN Req("list", stored, None, "create", "", << >>)
                         ELSE Req("new", None, None, "create", "", << >>) })
    /\ Quiet
    /\ UNCHANGED << stored, remoteVars, toolHist >>

\* onChange of the input, line 1109
onChange ==
    \E text \in Texts :
        /\ message # text
        /\ message' = text
        /\ Quiet
        /\ UNCHANGED << threadId, stored, runId, timer, observed, timeouts,
                        messages, recording, uiVars, net, remoteVars,
                        toolHist >>

\* mediaRecorder.onstop, lines 849-863: POST /chat/audio
PostAudio == Put(Req("audio", threadId, None, "audio", "", << >>))

\* sendMessage without the guard of lines 609-612.
sendMessageUnguarded(text) ==
    /\ InFlight < MaxInFlight
    /\ sendResult' = "posted"
    /\ net' = Put(Req("send", threadId, None, "send", text, << >>))

\* sendMessage, lines 608-623, up to the POST
sendMessage(text) ==
    IF runId # None
    THEN /\ sendResult' = "returned"
         /\ UNCHANGED net
    ELSE /\ InFlight < MaxInFlight
         /\ sendResult' = "posted"
         /\ net' = Put(Req("send", threadId, None, "send", text, << >>))

\* the body shared by onSendMessage (lines 628-638) and onKeyDown
SendBody ==
    /\ IF recording
       THEN /\ InFlight < MaxInFlight
            /\ recording' = FALSE
            /\ net' = PostAudio
            /\ Quiet
            /\ UNCHANGED message
       ELSE /\ message' = ""
            /\ sendMessage(trim(message))
            /\ UNCHANGED recording
    /\ UNCHANGED << threadId, stored, runId, timer, observed, timeouts,
                    messages, uiVars, remoteVars, toolHist >>

\* onSendMessage, lines 628-638 (the Send button)
onSendMessage == SendBody

\* onKeyDown, lines 799-804, for the Enter key
onKeyDown == SendBody

\* onToggleRecording, lines 902-904, and the effect of lines 815-897
onToggleRecording ==
    /\ recording' = ~recording
    /\ IF recording
       THEN /\ InFlight < MaxInFlight
            /\ net' = PostAudio
       ELSE UNCHANGED net
    /\ Quiet
    /\ UNCHANGED << threadId, stored, runId, timer, observed, timeouts,
                    messages, message, uiVars, remoteVars, toolHist >>

\* the continuation of POST /chat/send (line 622) and of POST /chat/audio
\* (lines 856-858)
SendResponse ==
    \E m \in Responses("send") \cup Responses("audio") :
        /\ net' = Take(m)
        /\ IF m.ok
           THEN SetRunId(m.id)
           ELSE UNCHANGED << runId, timer, observed >>
        /\ Quiet
        /\ UNCHANGED << threadId, stored, timeouts, messages, message,
                        recording, uiVars, remoteVars, toolHist >>

\* A timer that polls until the first status was seen, then stops.
TickOnce ==
    /\ timer # None
    /\ observed = ""
    /\ InFlight < MaxInFlight
    /\ net' = Put(Req("list", threadId, timer, "tick", "", << >>))
    /\ Quiet
    /\ UNCHANGED << threadId, stored, runId, timer, observed, timeouts,
                    messages, message, recording, uiVars, remoteVars,
                    toolHist >>

\* a tick of the interval of lines 771-773: updateMessages up to its POST
\* (lines 696-701)
Tick ==
    /\ timer # None
    /\ InFlight < MaxInFlight
    /\ net' = Put(Req("list", threadId, timer, "tick", "", << >>))
    /\ Quiet
    /\ UNCHANGED << threadId, stored, runId, timer, observed, timeouts,
                    messages, message, recording, uiVars, remoteVars,
                    toolHist >>

\* the continuation of POST /chat/list: updateMessages, lines 703-719, and
\* invokeChatbotFunctions, lines 668-689.  When the poll was made by
\* createThread (line 567), createThread goes on: it returns when a thread
\* id is held (lines 571-574) and asks for a new thread otherwise (line
\* 578), which is the case after a reset during the poll.
ListResponse ==
    \E m \in Responses("list") :
        IF ~m.ok
        THEN /\ net' = Take(m)
             /\ Quiet
             /\ UNCHANGED << threadId, stored, runId, timer, observed, timeouts,
                             messages, message, recording, uiVars,
                             remoteVars, toolHist >>
        ELSE
        /\ messages' = Reverse(m.msgs)
        /\ IF m.status = "requires_action"
              /\ m.action.type = "submit_tool_outputs"
           THEN LET st == invokeChatbotFunctions(m.action.tool_calls) IN
                /\ mapCenter' = st.ui.center
                /\ mapZoom' = st.ui.zoom
                /\ mapMarker' = st.ui.marker
                /\ invoked' = st.invoked
                /\ threw' = [threw EXCEPT
                               ![m.cap] = ErrorOf(m.action.tool_calls)]
                /\ net' = IF st.threw
                          THEN Take(m)
                          ELSE Swap(m, Req("submit", threadId, m.cap, m.from,
                                           "", st.outputs))
           ELSE /\ net' = IF m.from = "create" /\ threadId = None
                          THEN Swap(m, Req("new", None, None, "create", "",
                                           << >>))
                          ELSE Take(m)
                /\ UNCHANGED << uiVars, invoked, threw >>
        /\ IF m.cap # None /\ m.status = "completed"
           THEN /\ BagCardinality(timeouts) < MaxTimers
                /\ timeouts' = timeouts (+) SetToBag({m.cap})
           ELSE UNCHANGED timeouts
        /\ Quiet
        /\ UNCHANGED << threadId, stored, runId, timer, message, recording,
                        remoteVars, submitted >>
        /\ observed' = IF m.cap # None /\ m.cap = runId THEN m.status
                       ELSE observed

\* A continuation of the submission that lets go of the run.
SubmitResponseReleases ==
    \E m \in Responses("submit") :
        /\ net' = Take(m)
        /\ SetRunId(None)
        /\ Quiet
        /\ UNCHANGED << threadId, stored, timeouts, messages, message,
                        recording, uiVars, remoteVars, toolHist >>

\* the continuation of POST /chat/submit, lines 685-690
SubmitResponse ==
    \E m \in Responses("submit") :
        /\ net' = Take(m)
        /\ Quiet
        /\ UNCHANGED << threadId, stored, runId, timer, observed, timeouts,
                        messages, message, recording, uiVars, remoteVars,
                        toolHist >>

\* the timeout of lines 714-717 fires
SettleTimeout ==
    \E r \in BagToSet(timeouts) :
        /\ timeouts' = timeouts (-) SetToBag({r})
        /\ SetRunId(None)
        /\ Quiet
        /\ UNCHANGED << threadId, stored, messages, message, recording,
                        uiVars, net, remoteVars, toolHist >>

\* ---- the relay and the remote assistant: src/unnamed/part_000 ----

clientVars == << threadId, stored, runId, timer, observed, timeouts, messages,
                 message, recording, uiVars >>

\* POST /chat/new, lines 35-41
ChatNew ==
    \E m \in Requests("new") :
        /\ \/ /\ threads < MaxThreads
              /\ threads' = threads + 1
              /\ net' = Swap(m, Resp(m, TRUE, threads + 1, << >>, "", NoAction))
           \/ /\ net' = Swap(m, Fail(m))
              /\ UNCHANGED threads
        /\ Quiet
        /\ UNCHANGED << clientVars, log, runs, nextCall, toolHist >>

\* The relay's sendMessage with the run created before the message.
ChatSendRunFirst ==
    \E m \in Requests("send") \cup Requests("audio") :
    \E outcome \in {"run", "message", "insert", "ok"} :
        LET t == m.thread
            started == outcome # "run"
            added == outcome \in {"insert", "ok"}
        IN
        /\ started => t \in 1..threads /\ Len(runs) < MaxRuns
        /\ added => Len(log[t]) < MaxMsgs
        /\ log' = IF added
                  THEN [log EXCEPT ![t] = Append(@, UserMessage)]
                  ELSE log
        /\ runs' = IF started
                   THEN Append(runs, [thread |-> t, status |-> "queued",
                                      calls |-> << >>])
                   ELSE runs
        /\ net' = Swap(m, IF outcome = "ok"
                          THEN Resp(m, TRUE, Len(runs) + 1, << >>, "", NoAction)
                          ELSE Fail(m))
        /\ Quiet
        /\ UNCHANGED << clientVars, threads, nextCall, toolHist >>

\* sendMessage of the relay, lines 46-70, called by POST /chat/send
\* (lines 75-84) and POST /chat/audio (lines 162-182).  outcome names the
\* call that throws: the message create, the run create, the insert, none.
ChatSend ==
    \E m \in Requests("send") \cup Requests("audio") :
    \E outcome \in {"message", "run", "insert", "ok"} :
        LET t == m.thread
            added == outcome # "message"
            started == outcome \in {"insert", "ok"}
        IN
        /\ added => t \in 1..threads /\ Len(log[t]) < MaxMsgs
        /\ started => Len(runs) < MaxRuns
        /\ log' = IF added
                  THEN [log EXCEPT ![t] = Append(@, UserMessage)]
                  ELSE log
        /\ runs' = IF started
                   THEN Append(runs, [thread |-> t, status |-> "queued",
                                      calls |-> << >>])
                   ELSE runs
        /\ net' = Swap(m, IF outcome = "ok"
                          THEN Resp(m, TRUE, Len(runs) + 1, << >>, "", NoAction)
                          ELSE Fail(m))
        /\ Quiet
        /\ UNCHANGED << clientVars, threads, nextCall, toolHist >>

\* POST /chat/list, lines 89-123
ChatList ==
    \E m \in Requests("list") :
        LET t == m.thread
            r == m.cap
            found == t \in 1..threads
                     /\ (r # None => r \in 1..Len(runs) /\ runs[r].thread = t)
        IN
        /\ \/ /\ found
              /\ net' = Swap(m,
                    Resp(m, TRUE, None, Reverse(log[t]),
                         IF r # None THEN runs[r].status ELSE "",
                         IF r # None /\ runs[r].status = "requires_action"
                         THEN [type |-> "submit_tool_outputs",
                               tool_calls |-> runs[r].calls]
                         ELSE NoAction))
           \/ net' = Swap(m, Fail(m))
        /\ Quiet
        /\ UNCHANGED << clientVars, remoteVars, toolHist >>

Ids(outputs) == { outputs[i].tool_call_id : i \in 1..Len(outputs) }
CallIds(calls) == { calls[i].id : i \in 1..Len(calls) }

\* The tool calls run r of thread t waits for.
Pending(t, r) ==
    IF t \in 1..threads /\ r \in 1..Len(runs) /\ runs[r].thread = t
       /\ runs[r].status = "requires_action"
    THEN CallIds(runs[r].calls) ELSE {}

\* POST /chat/submit, lines 128-149.  The remote run takes the outputs
\* when it waits for exactly these tool calls.
ChatSubmit ==
    \E m \in Requests("submit") :
    \E insertOk \in BOOLEAN :
        LET r == m.cap
            taken == /\ Pending(m.thread, r) # {}
                     /\ Ids(m.outputs) = Pending(m.thread, r)
                     /\ Len(m.outputs) = Cardinality(Pending(m.thread, r))
        IN
        /\ submitted' = [c \in Calls |->
                           LET n == Cardinality({i \in 1..Len(m.outputs) :
                                        m.outputs[i].tool_call_id = c})
                           IN IF submitted[c] + n < MaxCount
                              THEN submitted[c] + n ELSE MaxCount]
        /\ runs' = IF taken
                   THEN [runs EXCEPT ![r].status = "queued",
                                     ![r].calls = << >>]
                   ELSE runs
        /\ net' = Swap(m, IF taken /\ insertOk
                          THEN Resp(m, TRUE, None, << >>, "", NoAction)
                          ELSE Fail(m))
        /\ Quiet
        /\ UNCHANGED << clientVars, threads, log, nextCall, invoked,
                        threw >>

\* The remote assistant advances a run (openai.beta.threads.runs, created
\* at lines 55-60; its status is read at lines 98-99).

\* queued -> in_progress
RunStarts ==
    \E r \in 1..Len(runs) :
        /\ runs[r].status = "queued"
        /\ runs' = [runs EXCEPT ![r].status = "in_progress"]
        /\ Quiet
        /\ UNCHANGED << clientVars, net, threads, log, nextCall, toolHist >>

\* in_progress -> requires_action, with a batch of fresh tool calls
RunRequiresAction ==
    \E r \in 1..Len(runs), batch \in Batches :
        /\ runs[r].status = "in_progress"
        /\ nextCall + Len(batch) <= MaxCalls
        /\ runs' = [runs EXCEPT
              ![r].status = "requires_action",
              ![r].calls = [i \in 1..Len(batch) |->
                  [id |-> nextCall + i,
                   type |-> batch[i].type,
                   name |-> batch[i].name,
                   arguments |-> batch[i].arguments]]]
        /\ nextCall' = nextCall + Len(batch)
        /\ Quiet
        /\ UNCHANGED << clientVars, net, threads, log, toolHist >>

\* in_progress -> completed, the reply is added to the thread
RunCompletes ==
    \E r \in 1..Len(runs) :
        /\ runs[r].status = "in_progress"
        /\ Len(log[runs[r].thread]) < MaxMsgs
        /\ runs' = [runs EXCEPT ![r].status = "completed"]
        /\ \E reply \in Replies :
              log' = [log EXCEPT ![runs[r].thread] = Append(@, reply)]
        /\ Quiet
        /\ UNCHANGED << clientVars, net, threads, nextCall, toolHist >>

\* in_progress -> failed or expired, requires_action -> expired
RunFails ==
    \E r \in 1..Len(runs), s \in {"failed", "expired"} :
        /\ \/ runs[r].status = "in_progress"
           \/ runs[r].status = "requires_action" /\ s = "expired"
        /\ runs' = [runs EXCEPT ![r].status = s, ![r].calls = << >>]
        /\ Quiet
        /\ UNCHANGED << clientVars, net, threads, log, nextCall, toolHist >>

\* ---- the specification ----

\* The state after the first render and the mount effect (lines 757-763)
\* of a first visit: nothing stored, POST /chat/new issued.
Init ==
    /\ threadId = None
    /\ stored = None
    /\ runId = None
    /\ timer = None
    /\ observed = ""
    /\ timeouts = EmptyBag
    /\ messages = << >>
    /\ message = ""
    /\ recording = FALSE
    /\ mapCenter = [latitude |-> 51505, longitude |-> -90]
    /\ mapZoom = 13
    /\ mapMarker = NoMarker
    /\ net = SetToBag({Req("new", None, None, "create", "", << >>)})
    /\ threads = 0
    /\ log = [t \in Threads |-> << >>]
    /\ runs = << >>
    /\ nextCall = 0
    /\ invoked = [c \in Calls |-> 0]
    /\ submitted = [c \in Calls |-> 0]
    /\ threw = [r \in Runs |-> ""]
    /\ sendResult = ""

Next ==
    \/ Reload
    \/ onResetThread
    \/ NewResponse
    \/ onChange
    \/ onSendMessage
    \/ onKeyDown
    \/ onToggleRecording
    \/ SendResponse
    \/ Tick
    \/ ListResponse
    \/ SubmitResponse
    \/ SettleTimeout
    \/ ChatNew
    \/ ChatSend
    \/ ChatList
    \/ ChatSubmit
    \/ RunStarts
    \/ RunRequiresAction
    \/ RunCompletes
    \/ RunFails

Spec == Init /\ [][Next]_vars

\* Typed turns of one conversation: no tool calls, no reset, no audio.
NextTurn ==
    \/ NewResponse
    \/ onChange
    \/ onSendMessage
    \/ onKeyDown
    \/ SendResponse
    \/ Tick
    \/ ListResponse
    \/ SettleTimeout
    \/ ChatNew
    \/ ChatSend
    \/ ChatList
    \/ RunStarts
    \/ RunCompletes
    \/ RunFails

SpecTurn == Init /\ [][NextTurn]_vars

\* The state after the first turn of a conversation was accepted: the
\* thread exists, the message was added, the run is recorded and polled.
InitRunning ==
    /\ threadId = 1
    /\ stored = 1
    /\ runId = 1
    /\ timer = 1
    /\ observed = ""
    /\ timeouts = EmptyBag
    /\ messages = << >>
    /\ message = ""
    /\ recording = FALSE
    /\ mapCenter = [latitude |-> 51505, longitude |-> -90]
    /\ mapZoom = 13
    /\ mapMarker = NoMarker
    /\ net = EmptyBag
    /\ threads = 1
    /\ log = [t \in Threads |-> IF t = 1 THEN << UserMessage >> ELSE << >>]
    /\ runs = << [thread |-> 1, status |-> "queued", calls |-> << >>] >>
    /\ nextCall = 0
    /\ invoked = [c \in Calls |-> 0]
    /\ submitted = [c \in Calls |-> 0]
    /\ threw = [r \in Runs |-> ""]
    /\ sendResult = ""

\* One run with its tool dispatch cycles.
NextTools ==
    \/ Tick
    \/ ListResponse
    \/ SubmitResponse
    \/ SettleTimeout
    \/ ChatList
    \/ ChatSubmit
    \/ RunStarts
    \/ RunRequiresAction
    \/ RunCompletes
    \/ RunFails

SpecTools == InitRunning /\ [][NextTools]_vars

\* Typed turns and polling while the remote runs are still queued.
NextSend ==
    \/ NewResponse
    \/ onChange
    \/ onSendMessage
    \/ onKeyDown
    \/ SendResponse
    \/ Tick
    \/ ListResponse
    \/ ChatNew
    \/ ChatSend
    \/ ChatList

SpecSend == Init /\ [][NextSend]_vars

\* The state in which the run of the first turn has asked for a batch of
\* tool calls: InitRunning after RunStarts and RunRequiresAction.
InitDispatch ==
    \E batch \in Batches :
        /\ Len(batch) <= MaxCalls
        /\ threadId = 1
        /\ stored = 1
        /\ runId = 1
        /\ timer = 1
        /\ observed = ""
        /\ timeouts = EmptyBag
        /\ messages = << >>
        /\ message = ""
        /\ recording = FALSE
        /\ mapCenter = [latitude |-> 51505, longitude |-> -90]
        /\ mapZoom = 13
        /\ mapMarker = NoMarker
        /\ net = EmptyBag
        /\ threads = 1
        /\ log = [t \in Threads |-> IF t = 1 THEN << UserMessage >> ELSE << >>]
        /\ runs = << [thread |-> 1, status |-> "requires_action",
                      calls |-> [i \in 1..Len(batch) |->
                          [id |-> i,
                           type |-> batch[i].type,
                           name |-> batch[i].name,
                           arguments |-> batch[i].arguments]]] >>
        /\ nextCall = Len(batch)
        /\ invoked = [c \in Calls |-> 0]
        /\ submitted = [c \in Calls |-> 0]
        /\ threw = [r \in Runs |-> ""]
        /\ sendResult = ""

\* Polling, dispatch and submission for one batch of tool calls.
NextDispatch ==
    \/ Tick
    \/ ListResponse
    \/ SubmitResponse
    \/ ChatList
    \/ ChatSubmit

SpecDispatch == InitDispatch /\ [][NextDispatch]_vars

\* Typed and spoken turns of one conversation.
NextAudio ==
    \/ NextTurn
    \/ onToggleRecording

SpecAudio == Init /\ [][NextAudio]_vars

\* Typed and spoken turns while the remote runs are still queued.
NextSpeak ==
    \/ NextSend
    \/ onToggleRecording

SpecSpeak == Init /\ [][NextSpeak]_vars

\* The states in which the client polls: the run of the first turn is
\* recorded and has reached some status (with a batch of tool calls when it
\* is requires_action, with its reply in the thread when it is completed),
\* or the page was just reloaded and createThread refreshes the log of the
\* stored thread with no run recorded.
InitPolled ==
    \E status \in {"queued", "in_progress", "requires_action", "completed",
                   "failed", "expired"},
       batch \in Batches \cup {<< >>},
       reply \in Replies,
       restored \in BOOLEAN :
        /\ (status = "requires_action") <=> (batch # << >>)
        /\ Len(batch) <= MaxCalls
        /\ threadId = 1
        /\ stored = 1
        /\ runId = IF restored THEN None ELSE 1
        /\ timer = IF restored THEN None ELSE 1
        /\ observed = ""
        /\ timeouts = EmptyBag
        /\ messages = << >>
        /\ message = ""
        /\ recording = FALSE
        /\ mapCenter = [latitude |-> 51505, longitude |-> -90]
        /\ mapZoom = 13
        /\ mapMarker = NoMarker
        /\ net = IF restored
                 THEN SetToBag({Req("list", 1, None, "create", "", << >>)})
                 ELSE EmptyBag
        /\ threads = 1
        /\ log = [t \in Threads |->
                    IF t # 1 THEN << >>
                    ELSE IF status = "completed"
                         THEN << UserMessage, reply >>
                         ELSE << UserMessage >>]
        /\ runs = << [thread |-> 1, status |-> status,
                      calls |-> [i \in 1..Len(batch) |->
                          [id |-> i,
                           type |-> batch[i].type,
                           name |-> batch[i].name,
                           arguments |-> batch[i].arguments]]] >>
        /\ nextCall = Len(batch)
        /\ invoked = [c \in Calls |-> 0]
        /\ submitted = [c \in Calls |-> 0]
        /\ threw = [r \in Runs |-> ""]
        /\ sendResult = ""

\* Polling of a run whose remote status stays as it is, but for the
\* submission of tool outputs.
NextPoll ==
    \/ Tick
    \/ ListResponse
    \/ SubmitResponse
    \/ SettleTimeout
    \/ ChatList
    \/ ChatSubmit

SpecPoll == InitPolled /\ [][NextPoll]_vars

\* The interval fires, the relay answers and the responses arrive.
SpecPollFair ==
    /\ SpecPoll
    /\ WF_vars(Tick)
    /\ WF_vars(SettleTimeout)
    /\ WF_vars(ChatList)
    /\ WF_vars(ChatSubmit)
    /\ WF_vars(ListResponse)
    /\ WF_vars(SubmitResponse)

\* The states in which the relay has answered the send of the first turn
\* and the answer has not reached the client: no run is recorded yet, the
\* remote run has reached some status without asking for a tool call.
InitLife ==
    \E status \in {"queued", "in_progress", "completed", "failed",
                   "expired"} :
        /\ threadId = 1
        /\ stored = 1
        /\ runId = None
        /\ timer = None
        /\ observed = ""
        /\ timeouts = EmptyBag
        /\ messages = << >>
        /\ message = ""
        /\ recording = FALSE
        /\ mapCenter = [latitude |-> 51505, longitude |-> -90]
        /\ mapZoom = 13
        /\ mapMarker = NoMarker
        /\ net = SetToBag({Resp(Req("send", 1, None, "send", "hi", << >>),
                                TRUE, 1, << >>, "", NoAction)})
        /\ threads = 1
        /\ log = [t \in Threads |->
                    IF t # 1 THEN << >>
                    ELSE IF status = "completed"
                         THEN << UserMessage, TextReply >>
                         ELSE << UserMessage >>]
        /\ runs = << [thread |-> 1, status |-> status, calls |-> << >>] >>
        /\ nextCall = 0
        /\ invoked = [c \in Calls |-> 0]
        /\ submitted = [c \in Calls |-> 0]
        /\ threw = [r \in Runs |-> ""]
        /\ sendResult = ""

\* The run slot over its life: set by the answer to the send, polled,
\* cleared by the settle timeout or by a reset.
NextLife ==
    \/ onResetThread
    \/ NewResponse
    \/ SendResponse
    \/ Tick
    \/ ListResponse
    \/ SettleTimeout
    \/ ChatNew
    \/ ChatList

SpecLife == InitLife /\ [][NextLife]_vars

\* The states in which the answer to a poll of the completed first turn
\* is about to be rendered: the answer lists the thread newest first or
\* oldest first, and the same answer may arrive twice.
InitRender ==
    \E reply \in Replies, newestFirst \in BOOLEAN, copies \in 1..2 :
        LET thread == << UserMessage, reply >>
            answer == Resp(Req("list", 1, 1, "tick", "", << >>), TRUE, None,
                           IF newestFirst THEN Reverse(thread) ELSE thread,
                           "completed", NoAction)
        IN
        /\ copies <= MaxInFlight
        /\ threadId = 1
        /\ stored = 1
        /\ runId = 1
        /\ timer = 1
        /\ observed = ""
        /\ timeouts = EmptyBag
        /\ messages = << >>
        /\ message = ""
        /\ recording = FALSE
        /\ mapCenter = [latitude |-> 51505, longitude |-> -90]
        /\ mapZoom = 13
        /\ mapMarker = NoMarker
        /\ net = [m \in {answer} |-> copies]
        /\ threads = 1
        /\ log = [t \in Threads |-> IF t = 1 THEN thread ELSE << >>]
        /\ runs = << [thread |-> 1, status |-> "completed",
                      calls |-> << >>] >>
        /\ nextCall = 0
        /\ invoked = [c \in Calls |-> 0]
        /\ submitted = [c \in Calls |-> 0]
        /\ threw = [r \in Runs |-> ""]
        /\ sendResult = ""

\* Answers are rendered, the interval polls on, the slot settles.
NextRender ==
    \/ Tick
    \/ ListResponse
    \/ SettleTimeout
    \/ ChatList

SpecRender == InitRender /\ [][NextRender]_vars

\* The scenario "Show me Paris": the run of the first turn asks for one
\* call of updateMap with the coordinates of Paris.
InitScenario ==
    /\ InitDispatch
    /\ Len(runs[1].calls) = 1
    /\ runs[1].calls[1].type = "function"
    /\ runs[1].calls[1].name = "updateMap"
    /\ runs[1].calls[1].arguments = Paris

\* The rest of the turn: dispatch, submission, the run goes on and
\* completes, the slot settles.
NextScenario ==
    \/ Tick
    \/ ListResponse
    \/ SubmitResponse
    \/ SettleTimeout
    \/ ChatList
    \/ ChatSubmit
    \/ RunStarts
    \/ RunCompletes

\* Timers fire, the relay answers and the responses arrive; the remote
\* assistant is under no obligation.
SpecScenario ==
    /\ InitScenario
    /\ [][NextScenario]_vars
    /\ WF_vars(Tick)
    /\ WF_vars(SettleTimeout)
    /\ WF_vars(ChatList)
    /\ WF_vars(ChatSubmit)
    /\ WF_vars(ListResponse)
    /\ WF_vars(SubmitResponse)

\* A run that asks for tool calls more than once: run 1 of the first turn
\* requires one call, and the remote side has one more call id to hand
\* out, so the run may ask once again after the submission.
InitCycle ==
    \E shape \in ToolShapes :
        /\ threadId = 1
        /\ stored = 1
        /\ runId = 1
        /\ timer = 1
        /\ observed = ""
        /\ timeouts = EmptyBag
        /\ messages = << >>
        /\ message = ""
        /\ recording = FALSE
        /\ mapCenter = [latitude |-> 51505, longitude |-> -90]
        /\ mapZoom = 13
        /\ mapMarker = NoMarker
        /\ net = EmptyBag
        /\ threads = 1
        /\ log = [t \in Threads |-> IF t = 1 THEN << UserMessage >> ELSE << >>]
        /\ runs = << [thread |-> 1, status |-> "requires_action",
                      calls |-> << [id |-> MaxCalls - 1,
                                    type |-> shape.type,
                                    name |-> shape.name,
                                    arguments |-> shape.arguments] >>] >>
        /\ nextCall = MaxCalls - 1
        /\ invoked = [c \in Calls |-> 0]
        /\ submitted = [c \in Calls |-> 0]
        /\ threw = [r \in Runs |-> ""]
        /\ sendResult = ""

NextCycle ==
    \/ NextDispatch
    \/ RunStarts
    \/ RunRequiresAction

SpecCycle == InitCycle /\ [][NextCycle]_vars

\* Polling of a run while the user may reset the conversation.
NextReset ==
    \/ NextPoll
    \/ onResetThread
    \/ NewResponse
    \/ ChatNew

SpecReset == InitPolled /\ [][NextReset]_vars

\* Conversations are created, restored by a reload and reset.
NextSession ==
    \/ Reload
    \/ onResetThread
    \/ NewResponse
    \/ onChange
    \/ ListResponse
    \/ ChatNew
    \/ ChatList

SpecSession == Init /\ [][NextSession]_vars

\* Typed turns across reloads and resets.
NextReload ==
    \/ NextSession
    \/ onSendMessage
    \/ SendResponse
    \/ Tick
    \/ ChatSend

SpecReload == Init /\ [][NextReload]_vars

\* Timers fire, the relay answers and responses arrive; the user and the
\* remote assistant are under no obligation.
SpecTurnFair ==
    /\ SpecTurn
    /\ WF_vars(Tick)
    /\ WF_vars(SettleTimeout)
    /\ WF_vars(ChatNew)
    /\ WF_vars(ChatSend)
    /\ WF_vars(ChatList)
    /\ WF_vars(NewResponse)
    /\ WF_vars(SendResponse)
    /\ WF_vars(ListResponse)

\* ---- properties ----

RunsOn(rs, t) == { r \in 1..Len(rs) : rs[r].thread = t }
ActiveRuns(t) == { r \in RunsOn(runs, t) : runs[r].status \notin Terminal }

\* A turn of the held conversation is under way: a run is recorded, a send
\* or audio request for it is in flight, or a remote run of it has not ended.
TurnOutstanding ==
    \/ runId # None
    \/ \E m \in BagToSet(net) :
          m.kind \in {"send", "audio"} /\ m.thread = threadId
    \/ ActiveRuns(threadId) # {}

\* The polls of run r in flight, from the POST to the continuation.
PollsInFlight(r) ==
    LET S == { m \in BagToSet(net) : m.kind = "list" /\ m.cap = r }
    IN BagCardinality([m \in S |-> net[m]])

\* Message m leaves the network in this step.
Consumed(m) == CopiesIn(m, net') < CopiesIn(m, net)
\* Request s enters the network in this step.
Issued(s) == s.phase = "req" /\ CopiesIn(s, net') > CopiesIn(s, net)

Functions(calls) == SelectSeq(calls, LAMBDA c : c.type = "function")
Callable(calls) ==
    \A i \in 1..Len(calls) :
        calls[i].type = "function" =>
            calls[i].arguments.json /\ calls[i].name \in chatbotFunctions

\* C1: at most one run is active per conversation: while a run is recorded
\* or a remote run of the conversation has not ended, no step starts another
\* remote run of that conversation, and no step replaces a recorded run id
\* by another run id.
C1_SingleActiveRun ==
    [][ /\ runId # None => runId' \in {runId, None}
        /\ \A t \in Threads :
              (ActiveRuns(t) # {} \/ (runId # None /\ threadId = t))
                 => RunsOn(runs', t) = RunsOn(runs, t) ]_vars

\* C2: of two submitTurn calls with no terminal status between them only
\* one is accepted: sendMessage posts a turn of the held conversation only
\* when no turn of it is outstanding.
C2_OneAcceptedCall ==
    [][ (sendResult' = "posted" /\ threadId # None) => ~TurnOutstanding ]_vars

C4_TerminalReleases ==
    \A r \in Runs : (runId = r /\ observed \in Terminal) ~> (runId # r)

\* C5: once a poll of the active run has shown failed, the run is no longer
\* recorded.
C5_FailedClears == ~(runId # None /\ observed = "failed")

\* C6: the slot holding run r is emptied only by a settle timeout that was
\* scheduled for r, or by a conversation reset.
C6_ClearedByOwnTimer ==
    [][ (runId # None /\ runId' = None)
           => \/ /\ BagIn(runId, timeouts)
                 /\ timeouts' = timeouts (-) SetToBag({runId})
              \/ /\ threadId' = None /\ stored' = None
                 /\ messages' = << >> /\ timeouts' = timeouts ]_vars

\* C7: each tool call has its handler invoked at most once and at most one
\* result sent to the remote run.
C7_ConsumedOnce == \A c \in Calls : invoked[c] <= 1 /\ submitted[c] <= 1

\* C8: at most one poll of a run is in flight.
C8_NoOverlappingPolls == \A r \in Runs : PollsInFlight(r) <= 1

C10_CompleteSubmission ==
    [][ \A m \in Requests("submit") :
           Consumed(m)
              => Pending(m.thread, m.cap) \subseteq Ids(m.outputs) ]_vars

\* The continuation of poll response m dispatches its tool calls in this
\* step.
Dispatches(m) ==
    /\ m \in Responses("list")
    /\ m.ok
    /\ m.status = "requires_action"
    /\ Consumed(m)

\* C11: a dispatch whose batch names a function that is not registered
\* throws, posts no submission, and is the only dispatch of that run: no
\* later poll dispatches the run again after a dispatch of it threw.
C11_UnknownNotRetried ==
    [][ \A m \in Responses("list") :
           (Dispatches(m) /\ ErrorOf(m.action.tool_calls) = "TypeError")
              => /\ threw'[m.cap] = "TypeError"
                 /\ \A s \in BagToSet(net') : ~Issued(s)
                 /\ threw[m.cap] = "" ]_vars

\* C12: when a handler call or the parsing of its arguments throws during a
\* dispatch, polling of the run goes on and the error is turned into a
\* result for the throwing call that is submitted to the run, or into the
\* release of the run.
C12_ThrowHandled ==
    [][ \A m \in Responses("list") :
           (Dispatches(m) /\ ErrorOf(m.action.tool_calls) # "")
              => LET calls == m.action.tool_calls
                     c == calls[FirstThrowing(calls)].id
                 IN /\ timer' = timer
                    /\ \/ \E s \in BagToSet(net') :
                             /\ Issued(s) /\ s.kind = "submit"
                             /\ s.cap = m.cap
                             /\ c \in Ids(s.outputs)
                       \/ m.cap = runId /\ runId' = None ]_vars

\* The create-conversation request of createThread.
NewReq == Req("new", None, None, "create", "", << >>)

\* C13: a create-conversation request is issued only when no conversation
\* id is held in memory or in local persistence, an id is written to
\* persistence only when none is held, and an id held in memory is the
\* persisted one: a held id is discarded by a reset but never replaced.
C13_Idempotent ==
    [][ /\ (\E s \in BagToSet(net') : Issued(s) /\ s.kind = "new")
              => (threadId' = None /\ stored' = None)
        /\ (stored' # stored /\ stored' # None)
              => (stored = None /\ threadId = None)
        /\ threadId' # None => threadId' = stored' ]_vars

\* C14: the continuation of a failed create-conversation call leaves the
\* conversation id in memory and in persistence as it was (unset, when
\* this was the only call), and a later createThread call with no id
\* stored, from a reset or a reload, issues the create request again.
C14_CreateFailure ==
    [][ /\ \A m \in Responses("new") :
              (~m.ok /\ Consumed(m)) => UNCHANGED << threadId, stored >>
        /\ onResetThread
              => CopiesIn(NewReq, net') = CopiesIn(NewReq, net) + 1
        /\ (Reload /\ stored = None) => CopiesIn(NewReq, net') = 1 ]_vars

\* C14 witness: the create-conversation call failed, its continuation has
\* run, and no conversation id is held in memory or in persistence.
C14_Witness ==
    /\ net = EmptyBag
    /\ threadId = None
    /\ stored = None

\* C15: a reload restores the persisted conversation id and resumes the
\* polling of the run that was active before the reload.
C15_ReloadResumes ==
    [][ Reload => /\ threadId' = stored
                  /\ runId' = runId
                  /\ timer' = runId ]_vars

\* C16: a reset leaves no conversation id in memory or in persistence, an
\* empty log and an empty run slot, and from then on only the conversation
\* held is active in the client: a run in the slot is a run of the
\* conversation held.
C16_ResetDiscards ==
    [][ /\ onResetThread
              => /\ threadId' = None /\ stored' = None
                 /\ messages' = << >>
                 /\ runId' = None /\ timer' = None
        /\ runId' # None
              => /\ runId' \in 1..Len(runs')
                 /\ runs'[runId'].thread = threadId' ]_vars

\* C17: the continuation of every successful poll, whatever status it
\* carries, sets the displayed log to the messages of the response, oldest
\* first (the response lists them newest first), also when the dispatch of
\* that poll throws, and leaves the run slot as it is.
C17_LogReplaced ==
    [][ \A m \in Responses("list") :
           (m.ok /\ Consumed(m))
              => /\ Len(messages') = Len(m.msgs)
                 /\ \A i \in 1..Len(m.msgs) :
                       messages'[i] = m.msgs[Len(m.msgs) + 1 - i]
                 /\ runId' = runId ]_vars

\* C17 witness: the log shows the reply of a completed run below the
\* user's message.
C17_Witness ==
    /\ observed = "completed"
    /\ Len(messages) = 2
    /\ messages[1].role = "user"
    /\ messages[2].role = "assistant"

\* C18: a step that starts a remote run starts it on an existing thread
\* and adds the user message of that turn to the thread, for typed and for
\* spoken turns: no run is started without its message.
C18_MessageBeforeRun ==
    [][ Len(runs') > Len(runs)
           => LET t == runs'[Len(runs')].thread
              IN /\ Len(runs') = Len(runs) + 1
                 /\ t \in 1..threads
                 /\ log'[t] = Append(log[t], UserMessage) ]_vars

\* C18 witness: a spoken turn was answered with the run it started, on a
\* thread that holds its message.
C18_Witness ==
    \E m \in Responses("audio") :
        /\ m.ok
        /\ m.id \in 1..Len(runs)
        /\ log[runs[m.id].thread] # << >>

C20_PollRetried ==
    /\ [][ \A m \in Responses("list") :
              (~m.ok /\ Consumed(m)) => (timer' = timer /\ runId' = runId)
         ]_vars
    /\ \A r \in Runs :
          (timer = r /\ PollsInFlight(r) = 0)
             ~> (PollsInFlight(r) > 0 \/ timer # r)

\* C20 witness: a poll of the recorded run has failed and its continuation
\* has not run yet.
C20_Witness ==
    \E m \in Responses("list") : ~m.ok /\ m.cap # None /\ m.cap = timer

\* What the component renders from: the log, the input, the run indicator,
\* the recording indicator and the map (lines 906-1163).
Rendered ==
    << messages, message, runId, recording, mapCenter, mapZoom, mapMarker >>

\* The continuation of a failed poll or of a failed submission runs in
\* this step.
TransportErrorMidTurn ==
    \E m \in Responses("list") \cup Responses("submit") :
        ~m.ok /\ m.cap # None /\ Consumed(m)

\* C21: the continuation of a failed poll or of a failed submission of
\* tool outputs leaves the run slot, the conversation id and the displayed
\* log as they were, and shows the failure: what the component renders
\* changes.
C21_ErrorVisible ==
    [][ TransportErrorMidTurn
           => /\ UNCHANGED << runId, timer, threadId, stored, messages >>
              /\ Rendered' # Rendered ]_vars

\* C22: the polling interval is armed for the run in the slot and for no
\* other: it is armed when the slot is set, cleared when the slot is
\* cleared, and a tick issues a poll only while a run is recorded, for
\* that run.
C22_TimerWhileActive ==
    [][ /\ timer' = runId'
        /\ \A s \in BagToSet(net') :
              (Issued(s) /\ s.kind = "list" /\ s.from = "tick")
                 => (runId # None /\ s.cap = runId) ]_vars

\* C22 witness: a run was recorded, polled until it showed completed, and
\* the slot and the interval were cleared.
C22_Witness ==
    /\ runId = None
    /\ timer = None
    /\ timeouts = EmptyBag
    /\ \E r \in 1..Len(runs) : runs[r].status = "completed"
    /\ Len(messages) >= 2

\* The newest message of thread t.
Newest(t) == log[t][Len(log[t])]

\* C23: the relay answers a poll with the whole thread, newest message
\* first, and the continuation sets the displayed log to exactly the
\* messages of the answer in reverse order, whatever the log showed before:
\* the newest message is last.
C23_PureProjection ==
    [][ /\ \A m \in Requests("list") :
              Consumed(m)
                 => \A a \in BagToSet(net') :
                       (a.phase = "resp" /\ a.kind = "list" /\ a.ok
                        /\ CopiesIn(a, net') > CopiesIn(a, net))
                          => /\ Len(a.msgs) = Len(log[m.thread])
                             /\ \A i \in 1..Len(a.msgs) :
                                   a.msgs[i]
                                     = log[m.thread][Len(a.msgs) + 1 - i]
        /\ \A m \in Responses("list") :
              (m.ok /\ Consumed(m))
                 => /\ Len(messages') = Len(m.msgs)
                    /\ \A i \in 1..Len(m.msgs) :
                          messages'[Len(m.msgs) + 1 - i] = m.msgs[i] ]_vars

\* C23 witness: the thread holds the user's message and the reply, the log
\* shows them in that order, and nothing is in flight.
C23_Witness ==
    /\ net = EmptyBag
    /\ threadId = 1
    /\ messages = log[1]
    /\ Len(messages) = 2

C25_ShowMeParis ==
    /\ [][ \A m \in Responses("list") :
              Dispatches(m)
                 => /\ mapCenter' = [latitude |-> 48850, longitude |-> 2350]
                    /\ mapZoom' = 12
                    /\ \E s \in BagToSet(net') :
                          /\ Issued(s) /\ s.kind = "submit"
                          /\ s.thread = 1 /\ s.cap = 1
                          /\ s.outputs = << [tool_call_id |-> 1,
                                             output |-> "Map updated"] >>
         ]_vars
    /\ (runId = 1 /\ observed = "completed") ~> (runId = None)

\* C25 witness: the map shows Paris, the result was submitted, the run
\* completed and the slot is clear.
C25_Witness ==
    /\ mapCenter = [latitude |-> 48850, longitude |-> 2350]
    /\ mapZoom = 12
    /\ submitted[1] >= 1
    /\ runs[1].status = "completed"
    /\ runId = None

\* The poll response m dispatches one call, of a registered function with
\* parseable arguments, in this step.
DispatchesOne(m) ==
    /\ Dispatches(m)
    /\ Len(m.action.tool_calls) = 1
    /\ m.action.tool_calls[1].type = "function"
    /\ Callable(m.action.tool_calls)

\* C26: a dispatched updateMap call sets the map center to the latitude
\* and longitude of its arguments and the zoom to their zoom, with the
\* result "Map updated"; a dispatched addMarker call sets the marker to the
\* latitude, longitude and label of its arguments, with the result "Marker
\* added".
C26_HandlerContract ==
    [][ \A m \in Responses("list") :
           DispatchesOne(m)
              => LET c == m.action.tool_calls[1]
                     a == c.arguments
                     Result(out) ==
                         \E s \in BagToSet(net') :
                             /\ Issued(s) /\ s.kind = "submit"
                             /\ s.outputs = << [tool_call_id |-> c.id,
                                                output |-> out] >>
                 IN IF c.name = "updateMap"
                    THEN /\ mapCenter' = [latitude |-> a.latitude,
                                          longitude |-> a.longitude]
                         /\ mapZoom' = a.zoom
                         /\ Result("Map updated")
                    ELSE /\ mapMarker' = [set |-> TRUE,
                                          latitude |-> a.latitude,
                                          longitude |-> a.longitude,
                                          label |-> a.label]
                         /\ Result("Marker added") ]_vars

\* C26 witness: the marker for London was placed and its result posted.
C26_Witness ==
    /\ mapMarker = [set |-> TRUE, latitude |-> 51507, longitude |-> -128,
                    label |-> "London"]
    /\ \E s \in Requests("submit") :
          s.outputs = << [tool_call_id |-> 1, output |-> "Marker added"] >>

\* C27: a dispatched updateMap call leaves the marker as it was, a
\* dispatched addMarker call leaves the map center and zoom as they were;
\* neither changes the conversation id, the run slot or the interval, the
\* log is the one the poll set, and the only request of the step is the
\* submission of the result.
C27_HandlersBounded ==
    [][ \A m \in Responses("list") :
           DispatchesOne(m)
              => LET c == m.action.tool_calls[1]
                 IN /\ c.name = "updateMap" => mapMarker' = mapMarker
                    /\ c.name = "addMarker"
                          => (mapCenter' = mapCenter /\ mapZoom' = mapZoom)
                    /\ UNCHANGED << threadId, stored, runId, timer,
                                    message, recording, remoteVars >>
                    /\ Len(messages') = Len(m.msgs)
                    /\ BagCardinality(net') = BagCardinality(net)
                    /\ \A s \in BagToSet(net') :
                          Issued(s) => s.kind = "submit" ]_vars

\* C27 witness: updateMap was dispatched for London and no marker is set.
C27_Witness ==
    /\ mapCenter = [latitude |-> 51507, longitude |-> -128]
    /\ mapZoom = 10
    /\ mapMarker = NoMarker
    /\ invoked[1] >= 1

\* C30: the answer to a submission leaves the run slot and the interval
\* as they are, every tick polls the run in the slot, and every poll
\* response that shows requires_action with callable tool calls, the first
\* of a run or a later one, invokes each function call and posts their
\* outputs for the run it polled.
C30_CycleRepeats ==
    [][ /\ (\E m \in Responses("submit") : Consumed(m))
              => UNCHANGED << runId, timer >>
        /\ \A s \in BagToSet(net') :
              (Issued(s) /\ s.kind = "list" /\ s.from = "tick")
                 => (runId # None /\ s.cap = runId)
        /\ \A m \in Responses("list") :
              (Dispatches(m) /\ Callable(m.action.tool_calls))
                 => LET ids == CallIds(Functions(m.action.tool_calls))
                    IN /\ \A c \in ids : invoked'[c] >= 1
                       /\ \E s \in BagToSet(net') :
                             /\ Issued(s) /\ s.kind = "submit"
                             /\ s.cap = m.cap
                             /\ Ids(s.outputs) = ids ]_vars

\* C30 witness: after the outputs of its first call were submitted, run 1
\* asked for a second call, which was invoked and whose output is posted
\* for run 1 while the slot still holds run 1.
C30_Witness ==
    /\ runId = 1
    /\ timer = 1
    /\ submitted[MaxCalls - 1] >= 1
    /\ invoked[MaxCalls] >= 1
    /\ \E s \in Requests("submit") :
          s.cap = 1 /\ Ids(s.outputs) = {MaxCalls}

\* The position of the last call of function name in the batch, or 0.
LastOf(calls, name) ==
    LET S == { i \in 1..Len(calls) :
                 calls[i].type = "function" /\ calls[i].name = name }
    IN IF S = {} THEN 0 ELSE CHOOSE i \in S : \A j \in S : j <= i

\* C31: when a batch of callable function calls is dispatched, the marker
\* is the one placed by the last addMarker call of the batch and the map
\* center and zoom are those of its last updateMap call (unchanged when
\* the batch has no such call), and the submission holds one result per
\* call, in batch order, each with the id of its call.
C31_LastWriteWins ==
    [][ \A m \in Responses("list") :
           LET calls == m.action.tool_calls
               k == LastOf(calls, "addMarker")
               u == LastOf(calls, "updateMap")
           IN (/\ Dispatches(m)
               /\ Callable(calls)
               /\ Functions(calls) = calls)
              => /\ mapMarker' =
                       IF k = 0 THEN mapMarker
                       ELSE [set |-> TRUE,
                             latitude |-> calls[k].arguments.latitude,
                             longitude |-> calls[k].arguments.longitude,
                             label |-> calls[k].arguments.label]
                 /\ mapCenter' =
                       IF u = 0 THEN mapCenter
                       ELSE [latitude |-> calls[u].arguments.latitude,
                             longitude |-> calls[u].arguments.longitude]
                 /\ mapZoom' = IF u = 0 THEN mapZoom
                               ELSE calls[u].arguments.zoom
                 /\ \E s \in BagToSet(net') :
                       /\ Issued(s) /\ s.kind = "submit"
                       /\ s.outputs =
                             [i \in 1..Len(calls) |->
                                 [tool_call_id |-> calls[i].id,
                                  output |->
                                      IF calls[i].name = "updateMap"
                                      THEN "Map updated"
                                      ELSE "Marker added"]] ]_vars

\* C31 witness: the batch placed the marker on Paris and then on London;
\* the marker is on London and both placements have their result.
C31_Witness ==
    /\ Len(runs[1].calls) = 2
    /\ \A i \in 1..2 : runs[1].calls[i].name = "addMarker"
    /\ runs[1].calls[1].arguments = Paris
    /\ runs[1].calls[2].arguments = London
    /\ mapMarker = [set |-> TRUE, latitude |-> 51507, longitude |-> -128,
                    label |-> "London"]
    /\ \E s \in Requests("submit") :
          s.outputs = << [tool_call_id |-> 1, output |-> "Marker added"],
                         [tool_call_id |-> 2, output |-> "Marker added"] >>

\* C32: the continuation of a poll that was issued for a conversation
\* which is no longer the one held (a reset came in between) leaves the
\* displayed log and the map as they are, invokes no tool handler and
\* schedules no settle timeout.
C32_StalePollInert ==
    [][ \A m \in Responses("list") :
           (Consumed(m) /\ m.thread # threadId)
              => UNCHANGED << messages, uiVars, invoked, timeouts >> ]_vars

\* C33: every poll and every submission that carries a run id carries the
\* id of the conversation in which that run was started.
C33_IdsBelongTogether ==
    [][ \A s \in BagToSet(net') :
           (Issued(s) /\ s.kind \in {"list", "submit"} /\ s.cap # None)
              => /\ s.cap \in 1..Len(runs)
                 /\ s.thread = runs[s.cap].thread ]_vars

\* C34: every send-message and every submit-audio request carries the id
\* of a conversation: none is issued while no conversation id is held.
C34_SendHoldsConversation ==
    [][ \A s \in BagToSet(net') :
           (Issued(s) /\ s.kind \in {"send", "audio"})
              => (threadId # None /\ s.thread = threadId) ]_vars

\* C35: a step of the relay that starts a remote run answers the request
\* with the id of that run, and the continuation of such an answer records
\* the id as the active run.
C35_RunReported ==
    [][ /\ Len(runs') > Len(runs)
              => \E s \in BagToSet(net') :
                    /\ s.phase = "resp" /\ s.kind \in {"send", "audio"}
                    /\ CopiesIn(s, net') > CopiesIn(s, net)
                    /\ s.ok /\ s.id = Len(runs')
        /\ \A m \in Responses("send") \cup Responses("audio") :
              (Consumed(m) /\ m.ok) => runId' = m.id ]_vars

\* C36: whenever a conversation id is held and no create-conversation
\* request is in flight, the stored id is the held id.
C36_StoredIsHeld ==
    (threadId # None /\ Requests("new") \cup Responses("new") = {})
        => stored = threadId

\* C36 witness: the conversation created after a reset is held and stored,
\* no creation is in flight, and a reload is restoring it from persistence.
C36_Witness ==
    /\ threadId = 2
    /\ stored = 2
    /\ Requests("new") \cup Responses("new") = {}
    /\ \E m \in Requests("list") : m.from = "create" /\ m.thread = 2

\* The text values of the text parts of a content, in order.
RECURSIVE TextValues(_)
TextValues(content) ==
    IF content = << >> THEN << >>
    ELSE (IF Head(content).type = "text"
          THEN << Head(content).text.value >> ELSE << >>)
         \o TextValues(Tail(content))

\* C28: every message of the displayed log is rendered as exactly its
\* text parts, in order, under the name of its role; parts of another type
\* show nothing.
C28_NonTextSkipped ==
    \A i \in 1..Len(messages) :
        LET texts == TextValues(messages[i].content)
        IN /\ Len(LogView[i]) = Len(texts)
           /\ \A k \in 1..Len(texts) :
                 /\ LogView[i][k].line = texts[k]
                 /\ LogView[i][k].label = getRoleName(messages[i].role)

\* C28 witness: the log shows a message with an image part between two
\* text parts.
C28_Witness ==
    \E i \in 1..Len(messages) :
        /\ messages[i] = MixedReply
        /\ Len(LogView[i]) = 2

\* C29: a settle timeout is pending only for the run in the slot, at most
\* one per run, and the polling interval is armed only for the run in the
\* slot.
C29_NoOrphanTimers ==
    /\ \A r \in BagToSet(timeouts) :
          r = runId /\ CopiesIn(r, timeouts) <= 1
    /\ timer # None => timer = runId

====
